---- MODULE Spec2Model ----
(***************************************************************************)
(* Exam-Creator: the question-generation route (POST /generate-questions)  *)
(* and the client quiz state (quizReducer and the screens that dispatch    *)
(* to it), as state machines.                                              *)
(***************************************************************************)
EXTENDS Integers, Sequences, FiniteSets, TLC

VARIABLES
    \* ---- server: one run of POST /generate-questions ----
    pc,                 \* "idle" | "calling" | "delaying" | "done"
    request,            \* the request body being served
    typeIndex,          \* position in questionTypes (1..4)
    batch,              \* the inner loop counter of the current type
    allQuestions,       \* accumulated questions
    errors,             \* accumulated batch errors
    currentId,          \* next sequential id
    globalBatchIndex,   \* number of batch calls completed
    callLog,            \* every generateQuestionBatch call made in this run
    outcomes,           \* what the service did on each settled call: "ok" | "failed"
    response,           \* the NextResponse returned
    delayTotal,         \* milliseconds spent in the inter-batch setTimeout
    \* ---- client ----
    state,              \* QuizState held by QuizProvider (useReducer)
    lastAction,         \* the action last given to quizReducer
    currentState,       \* Home: "config" | "preview" | "quiz" | "results"
    editingIndex,       \* QuizPreview: index being edited, NoIndex for null
    editingQuestion,    \* QuizPreview: <<>> for null, <<q>> for a question
    pending,            \* number of /api/generate-questions fetches in flight
    \* ---- the helper functions of the route, applied on their own ----
    applied,            \* the last application: function, arguments, result
    \* ---- MatchingQuestion ----
    matches,            \* Record<rightId, leftId>, as the set of its <<key, value>> entries
    draggedItem         \* id of the left item being dragged, Null for none

serverVars == <<pc, request, typeIndex, batch, allQuestions, errors, currentId,
                globalBatchIndex, callLog, outcomes, response, delayTotal>>

clientVars == <<state, lastAction, currentState, editingIndex, editingQuestion, pending>>

widgetVars == <<matches, draggedItem>>

vars == <<serverVars, clientVars, applied, widgetVars>>

----------------------------------------------------------------------------
(* Bounds of the model *)

\* largest total of requested questions whose batches are explored
MaxRequested == 4
\* how many items more than requested the external service may answer with
MaxExtra == 1
\* longest question list given to the reducer as a payload or grown by it
MaxLen == 2
\* longest question list a generation response or an imported file holds
MaxQuiz == 2
\* most generation requests outstanding at once
MaxPending == 2
\* longest notes text given to getContentChunk on its own
MaxNotes == 8
\* largest batch index given to getContentChunk on its own
MaxIndex == 5
\* largest chunk count given to getContentChunk on its own
MaxChunks == 5
\* longest service answer given to generateQuestionBatch on its own
MaxAnswer == 3
\* most pieces the split of a chunk yields for extractTopics on its own
MaxSentences == 3
\* largest topic count given to extractTopics on its own
MaxTopics == 6
\* number of items in each column of a matching question
MaxItems == 3

(* Program constants *)

\* route.ts:227 "Maximum is 50"
MaxQuestions == 50
\* route.ts:231 notes.trim().length < 100
MinNotesLength == 100
\* route.ts:308 setTimeout(resolve, 1000)
BatchDelayMs == 1000

Undefined == "undefined"

\* an optional field of a JSON body: absent (undefined is not serialised) or a value
Absent == [defined |-> FALSE, value |-> <<>>]

Present(v) == [defined |-> TRUE, value |-> v]

----------------------------------------------------------------------------
(* Helpers *)

Min(a, b) == IF a < b THEN a ELSE b

\* Math.ceil(a / b) for a >= 0, b > 0
Ceil(a, b) == (a + b - 1) \div b

\* `q${n}`
QId(n) == "q" \o ToString(n)

----------------------------------------------------------------------------
(* The request body *)

questionTypes == <<"MCQ", "TF", "MATCHING", "ESSAY">>

Types == {"MCQ", "TF", "MATCHING", "ESSAY"}

\* Object.values(questionCounts).reduce((sum, count) => sum + count, 0)
totalQuestions(counts) ==
    counts["MCQ"] + counts["TF"] + counts["MATCHING"] + counts["ESSAY"]

CountsUpTo(n) ==
    { c \in [Types -> 0..n] : totalQuestions(c) <= n }

\* requests over the maximum: 51 and 80 questions
OversizeCounts ==
    { [MCQ |-> 20, TF |-> 20, MATCHING |-> 11, ESSAY |-> 0],
      [MCQ |-> 20, TF |-> 20, MATCHING |-> 20, ESSAY |-> 20] }

\* notes: absent (null/undefined), or a string known by its length and the
\* length of its trim()
NotesAbsent == [present |-> FALSE, length |-> 0, trimLength |-> 0]

NotesValues ==
    { NotesAbsent,
      [present |-> TRUE, length |-> 0,   trimLength |-> 0],     \* ""
      [present |-> TRUE, length |-> 5,   trimLength |-> 5],     \* "short"
      [present |-> TRUE, length |-> 99,  trimLength |-> 99],
      [present |-> TRUE, length |-> 120, trimLength |-> 90],    \* padded with blanks
      [present |-> TRUE, length |-> 100, trimLength |-> 100] }

\* difficulty: the route does not validate it; "" stands for a falsy value
DifficultyValues == {"Medium", ""}

Requests ==
    [ questionCounts : CountsUpTo(MaxRequested) \cup OversizeCounts,
      notes : NotesValues,
      difficulty : DifficultyValues ]

NoRequest ==
    [ questionCounts |-> [t \in Types |-> 0],
      notes |-> NotesAbsent,
      difficulty |-> "" ]

----------------------------------------------------------------------------
(* The external structured-generation service *)

OtherType(type) == IF type = "MCQ" THEN "TF" ELSE "MCQ"

\* The items a schema-conforming answer may hold (QuestionBatchSchema): id,
\* question and answer are strings and may be empty; type and difficulty are
\* enum members.
\* The optional fields are lists (empty when left out); correctMatches, a
\* record from right-item id to left-item id, is the set of its <<key, value>>
\* entries.  GoodItem is an item as the prompt asks for it.
GoodItem(type) ==
    [ id |-> "q1", type |-> type, question |-> "Q", answer |-> "A", difficulty |-> "Easy",
      options |-> IF type = "MCQ" THEN <<"A", "B", "C", "D">> ELSE <<>>,
      leftItems |-> IF type = "MATCHING" THEN <<"term1", "term2", "term3", "term4">> ELSE <<>>,
      rightItems |-> IF type = "MATCHING" THEN <<"def1", "def2", "def3", "def4">> ELSE <<>>,
      correctMatches |-> IF type = "MATCHING"
                         THEN { <<"def1", "term1">>, <<"def2", "term2">>,
                                <<"def3", "term3">>, <<"def4", "term4">> }
                         ELSE {} ]

ServiceItems(type) ==
    { GoodItem(type), [GoodItem(type) EXCEPT !.answer = ""] }

\* Items the schema also lets through: an MCQ whose answer is none of its
\* four options, an MCQ with three options, a MATCHING question one of whose
\* correctMatches entries names ids that none of its items has.
OddItems(type) ==
    IF type = "MCQ"
    THEN { [GoodItem(type) EXCEPT !.answer = "E"],
           [GoodItem(type) EXCEPT !.options = <<"A", "B", "C">>] }
    ELSE IF type = "MATCHING"
    THEN { [GoodItem(type) EXCEPT !.correctMatches =
                { <<"def1", "term1">>, <<"def9", "term9">> }] }
    ELSE {}

SeqsUpTo(S, n) == UNION { [1..k -> S] : k \in 0..n }

ServiceFailure == [ok |-> FALSE, questions |-> <<>>]

\* What generateObject may do for a batch asking for `count` questions of
\* `type`: throw (timeout, malformed answer, schema violation) or answer with
\* any number of items, also more than asked for; the service need not
\* return the type it was asked for.
ServiceAnswers(type, count) ==
    {ServiceFailure} \cup
    { [ok |-> TRUE, questions |-> s] : s \in SeqsUpTo(ServiceItems(type), count + MaxExtra) } \cup
    { [ok |-> TRUE, questions |-> <<GoodItem(OtherType(type))>>] } \cup
    { [ok |-> TRUE, questions |-> <<item>>] : item \in OddItems(type) }

----------------------------------------------------------------------------
(* generateQuestionBatch *)

\* answer is a string or an array of strings (route.ts:13); an array is
\* written as its JSON text, EmptyArray being [] - an object, hence truthy
EmptyArray == "[]"

\* q.id && q.type && q.question && q.answer && q.difficulty
IsValid(q) ==
    /\ q.id # ""
    /\ q.type # ""
    /\ q.question # ""
    /\ q.answer # ""
    /\ q.difficulty # ""

\* generateQuestionBatch with a catch block that swallows the failure
generateQuestionBatchSilent(type, count, answer) ==
    IF answer.ok
    THEN [questions |-> SelectSeq(answer.questions, IsValid), error |-> Undefined]
    ELSE [questions |-> <<>>, error |-> Undefined]

\* The value generateQuestionBatch resolves to, given what the service did.
generateQuestionBatch(type, count, answer) ==
    IF count = 0 THEN [questions |-> <<>>, error |-> Undefined]
    ELSE IF answer.ok
         THEN [questions |-> SelectSeq(answer.questions, IsValid), error |-> Undefined]
         ELSE [questions |-> <<>>, error |-> "Failed to generate " \o type \o " questions"]

----------------------------------------------------------------------------
(* getContentChunk *)

\* A text is the list of its characters.  The notes of length len are
\* <<1, ..., len>>, every character standing for its position; Blank is the
\* " " that joins a wrap-around.
Blank == 0

NotesOfLength(len) == [ k \in 1..len |-> k ]

\* str.substring(a, b) for 0 <= a <= b <= str.length
Substring(str, a, b) == SubSeq(str, a + 1, b)

\* getContentChunk with start = chunkIndex * chunkSize, the modulo left out
getContentChunkNoRotation(notes, chunkIndex, totalChunks) ==
    IF totalChunks <= 0 THEN <<>>
    ELSE LET chunkSize == Ceil(Len(notes), totalChunks)
             start == Min(chunkIndex * chunkSize, Len(notes))
             end == Min(start + chunkSize, Len(notes))
             chunk == Substring(notes, start, end)
         IN  IF 2 * Len(chunk) < chunkSize /\ Len(notes) > chunkSize
             THEN chunk \o <<Blank>> \o Substring(notes, 0, chunkSize - Len(chunk))
             ELSE chunk

\* getContentChunk without the wrap-around
getContentChunkNoWrap(notes, chunkIndex, totalChunks) ==
    IF totalChunks <= 0 THEN <<>>
    ELSE LET chunkSize == Ceil(Len(notes), totalChunks)
             start == (chunkIndex * chunkSize) % Len(notes)
             end == Min(start + chunkSize, Len(notes))
         IN  Substring(notes, start, end)

\* getContentChunk(notes, chunkIndex, totalChunks) for non-empty notes and
\* chunkIndex >= 0.  With totalChunks = 0 chunkSize is Infinity, start and end
\* are NaN and substring(NaN, NaN) is ""; with totalChunks < 0 chunkSize is
\* negative or -0, end is at most 0 and substring gives ""; in both cases the
\* wrap-around test fails and "" is returned.  chunk.length < chunkSize / 2
\* is a comparison of reals.
getContentChunk(notes, chunkIndex, totalChunks) ==
    IF totalChunks <= 0 THEN <<>>
    ELSE LET chunkSize == Ceil(Len(notes), totalChunks)
             start == (chunkIndex * chunkSize) % Len(notes)
             end == Min(start + chunkSize, Len(notes))
             chunk == Substring(notes, start, end)
         IN  IF 2 * Len(chunk) < chunkSize /\ Len(notes) > chunkSize
             THEN chunk \o <<Blank>> \o Substring(notes, 0, chunkSize - Len(chunk))
             ELSE chunk

\* Math.max(a, b)
Max(a, b) == IF a >= b THEN a ELSE b

\* the chunk of a batch cut in as many chunks as totalBatches says
contentChunkExact(notes, batchIndex, totalBatches) ==
    getContentChunk(notes, batchIndex, totalBatches)

\* const contentChunk = getContentChunk(notes, batchIndex, Math.max(totalBatches, 4))
contentChunk(notes, batchIndex, totalBatches) ==
    getContentChunk(notes, batchIndex, Max(totalBatches, 4))

----------------------------------------------------------------------------
(* extractTopics *)

\* notes.split(/[.!?]+/) yields the pieces between the sentence marks; a
\* piece is known by its place in the text and the length of its trim().
\* The lengths tried: an empty piece, 20 and 21 characters, a long sentence.
PieceLengths == {0, 20, 21, 40}

Pieces(n) ==
    UNION { { [ k \in 1..m |-> [at |-> k, trimLength |-> f[k]] ] : f \in [1..m -> PieceLengths] }
            : m \in 0..n }

\* .filter((s) => s.trim().length > 20)
LongEnough(s) == s.trimLength > 20

\* extractTopics taking the first sentences instead of spreading the sample
extractTopicsFirst(pieces, count) ==
    LET sentences == SelectSeq(pieces, LongEnough)
    IN  [ i \in 1..Min(count, Len(sentences)) |-> sentences[i] ]

\* extractTopics(notes, count), pieces being the split of notes: for i from 0
\* while i < count and i < sentences.length, the sentence at
\* Math.floor((i * sentences.length) / count), pushed if longer than 20
extractTopics(pieces, count) ==
    LET sentences == SelectSeq(pieces, LongEnough)
        sampled == [ i \in 1..Min(count, Len(sentences)) |->
                        sentences[(((i - 1) * Len(sentences)) \div count) + 1] ]
    IN  SelectSeq(sampled, LongEnough)

----------------------------------------------------------------------------
(* POST *)

NoResponse ==
    [ status |-> 0, error |-> Undefined, questions |-> <<>>, generated |-> 0,
      requested |-> 0, sectionsUsed |-> 0, breakdown |-> <<>>, errors |-> Absent ]

ErrorResponse(status, error) == [NoResponse EXCEPT !.status = status, !.error = error]

\* type === "MATCHING" ? 2 : type === "ESSAY" ? 2 : 3
maxBatchSize(type) == IF type = "MATCHING" THEN 2 ELSE IF type = "ESSAY" THEN 2 ELSE 3

\* Math.ceil(count / maxBatchSize)
batches(type, count) == Ceil(count, maxBatchSize(type))

\* every batch asking for the maximum
batchCountFull(type, count, b) == maxBatchSize(type)

\* Math.min(maxBatchSize, count - batch * maxBatchSize)
batchCount(type, count, b) == Min(maxBatchSize(type), count - b * maxBatchSize(type))

\* the next entry of questionTypes after position i whose count is > 0 (5: none)
NextType(i, counts) ==
    IF \E j \in (i + 1)..4 : counts[questionTypes[j]] > 0
    THEN CHOOSE j \in (i + 1)..4 :
            /\ counts[questionTypes[j]] > 0
            /\ \A k \in (i + 1)..(j - 1) : counts[questionTypes[k]] <= 0
    ELSE 5

\* the call given the loop counter of its type as batch index
BatchCallPerType(r, ti, b, cid, gbi, aq) ==
    [ type |-> questionTypes[ti],
      count |-> batchCount(questionTypes[ti], r.questionCounts[questionTypes[ti]], b),
      startId |-> cid,
      batchIndex |-> b,
      totalBatches |-> totalQuestions(r.questionCounts),
      existingQuestions |-> aq ]

\* the arguments of the generateQuestionBatch call of batch b of type ti
BatchCall(r, ti, b, cid, gbi, aq) ==
    [ type |-> questionTypes[ti],
      count |-> batchCount(questionTypes[ti], r.questionCounts[questionTypes[ti]], b),
      startId |-> cid,
      batchIndex |-> gbi,
      totalBatches |-> totalQuestions(r.questionCounts),
      existingQuestions |-> aq ]

CountOfType(qs, type) == Cardinality({ i \in 1..Len(qs) : qs[i].type = type })

\* a breakdown that reports no more than was requested of a type
BreakdownCapped(r, aq) ==
    [ i \in 1..4 |->
        [ type |-> questionTypes[i],
          requested |-> r.questionCounts[questionTypes[i]],
          generated |-> Min(CountOfType(aq, questionTypes[i]),
                            r.questionCounts[questionTypes[i]]) ] ]

\* questionTypes.map(qt => ({type, requested, generated}))
Breakdown(r, aq) ==
    [ i \in 1..4 |->
        [ type |-> questionTypes[i],
          requested |-> r.questionCounts[questionTypes[i]],
          generated |-> CountOfType(aq, questionTypes[i]) ] ]

\* the tail of POST without its two empty-list checks
FinalResponseUnchecked(r, aq, errs, gbi) ==
    [ status |-> 200,
      error |-> Undefined,
      questions |-> SelectSeq(aq, IsValid),
      generated |-> Len(SelectSeq(aq, IsValid)),
      requested |-> totalQuestions(r.questionCounts),
      sectionsUsed |-> gbi,
      breakdown |-> Breakdown(r, aq),
      errors |-> IF Len(errs) > 0 THEN Present(errs) ELSE Absent ]

\* the tail of POST treating a shortfall as a failure
FinalResponseStrict(r, aq, errs, gbi) ==
    IF Len(SelectSeq(aq, IsValid)) < totalQuestions(r.questionCounts)
    THEN ErrorResponse(500, "Failed to generate any questions. Please try again with different content or fewer questions.")
    ELSE FinalResponseUnchecked(r, aq, errs, gbi)

\* the tail of POST, after the loops (route.ts:323-377)
FinalResponse(r, aq, errs, gbi) ==
    LET validQuestions == SelectSeq(aq, IsValid) IN
    IF Len(aq) = 0
    THEN ErrorResponse(500, "Failed to generate any questions. Please try again with different content or fewer questions.")
    ELSE IF Len(validQuestions) = 0
    THEN ErrorResponse(500, "No valid questions were generated. Please try again.")
    ELSE [ status |-> 200,
           error |-> Undefined,
           questions |-> validQuestions,
           generated |-> Len(validQuestions),
           requested |-> totalQuestions(r.questionCounts),
           sectionsUsed |-> gbi,
           breakdown |-> Breakdown(r, aq),
           errors |-> IF Len(errs) > 0 THEN Present(errs) ELSE Absent ]

\* the validation of POST without the notes-length check
ValidateCountsOnly(r) ==
    IF ~r.notes.present
    THEN ErrorResponse(500, "Failed to generate questions. Please try again.")
    ELSE IF totalQuestions(r.questionCounts) = 0
    THEN ErrorResponse(400, "No questions requested")
    ELSE IF totalQuestions(r.questionCounts) > MaxQuestions
    THEN ErrorResponse(400, "Too many questions requested. Maximum is 50.")
    ELSE NoResponse

\* the validation of POST (route.ts:210-236): the response it returns early
\* with, or NoResponse when the request passes
Validate(r) ==
    IF ~r.notes.present
    THEN \* notes.length (route.ts:220) throws; the outer catch answers
         ErrorResponse(500, "Failed to generate questions. Please try again.")
    ELSE IF totalQuestions(r.questionCounts) = 0
    THEN ErrorResponse(400, "No questions requested")
    ELSE IF totalQuestions(r.questionCounts) > MaxQuestions
    THEN ErrorResponse(400, "Too many questions requested. Maximum is 50.")
    ELSE IF r.notes.length = 0 \/ r.notes.trimLength < MinNotesLength
    THEN ErrorResponse(400, "Please provide more detailed content (at least 100 characters)")
    ELSE NoResponse

\* the id assignment left out: the ids the model produced are kept
AssignIdsKept(qs, cid, difficulty) ==
    [ i \in 1..Len(qs) |-> [qs[i] EXCEPT !.difficulty = difficulty] ]

\* result.questions.forEach((q, index) => { q.id = `q${currentId + index}`; q.difficulty = difficulty })
AssignIds(qs, cid, difficulty) ==
    [ i \in 1..Len(qs) |->
        [qs[i] EXCEPT !.id = QId(cid + i - 1), !.difficulty = difficulty] ]

ServerInit ==
    /\ pc = "idle"
    /\ request = NoRequest
    /\ typeIndex = 1
    /\ batch = 0
    /\ allQuestions = <<>>
    /\ errors = <<>>
    /\ currentId = 1
    /\ globalBatchIndex = 0
    /\ callLog = <<>>
    /\ outcomes = <<>>
    /\ response = NoResponse
    /\ delayTotal = 0

\* POST up to its first suspension point: the validation and, if it passes,
\* the first generateQuestionBatch call.  One invocation is modelled: every
\* invocation has its own locals and the route keeps nothing between requests.
POST(r) ==
    /\ pc = "idle"
    /\ request' = r
    /\ batch' = 0
    /\ allQuestions' = <<>>
    /\ errors' = <<>>
    /\ currentId' = 1
    /\ globalBatchIndex' = 0
    /\ outcomes' = <<>>
    /\ delayTotal' = 0
    /\ IF Validate(r) # NoResponse
       THEN /\ response' = Validate(r)
            /\ pc' = "done"
            /\ typeIndex' = 1
            /\ callLog' = <<>>
       ELSE /\ typeIndex' = NextType(0, r.questionCounts)
            /\ IF typeIndex' = 5
               THEN /\ pc' = "done"
                    /\ callLog' = <<>>
                    /\ response' = FinalResponse(r, <<>>, <<>>, 0)
               ELSE /\ pc' = "calling"
                    /\ callLog' = <<BatchCall(r, typeIndex', 0, 1, 0, <<>>)>>
                    /\ response' = NoResponse

\* the orchestrator without its setTimeout
delayNeededNever(b, nb) == FALSE

\* the delay taken after every batch
delayNeededEveryBatch(b, nb) == b < nb

\* if (batch < batches - 1): the delay follows this batch
delayNeeded(b, nb) == b < nb - 1

\* The loops of POST from the end of an iteration on: batch++ and the test
\* of the inner loop, then the outer loop's next type with count > 0, then
\* the response; up to the next generateQuestionBatch call or the return.
Advance(aq, errs, cid, gbi) ==
    LET type == questionTypes[typeIndex]
        count == request.questionCounts[type]
        next == NextType(typeIndex, request.questionCounts)
    IN  IF batch + 1 < batches(type, count)
        THEN /\ pc' = "calling"
             /\ batch' = batch + 1
             /\ callLog' = Append(callLog, BatchCall(request, typeIndex, batch + 1, cid, gbi, aq))
             /\ UNCHANGED <<typeIndex, response>>
        ELSE IF next # 5
        THEN /\ pc' = "calling"
             /\ typeIndex' = next
             /\ batch' = 0
             /\ callLog' = Append(callLog, BatchCall(request, next, 0, cid, gbi, aq))
             /\ UNCHANGED response
        ELSE /\ pc' = "done"
             /\ response' = FinalResponse(request, aq, errs, gbi)
             /\ UNCHANGED <<typeIndex, batch, callLog>>

\* The pending generateQuestionBatch call settles; POST runs on to its next
\* suspension point (the delay, the next call) or to its response.
BatchReturns(answer) ==
    /\ pc = "calling"
    /\ LET call == callLog[Len(callLog)]
           type == questionTypes[typeIndex]
           count == request.questionCounts[type]
           result == generateQuestionBatch(call.type, call.count, answer)
           n == Len(result.questions)
       IN  /\ outcomes' = Append(outcomes, IF answer.ok THEN "ok" ELSE "failed")
           /\ errors' = IF result.error # Undefined
                        THEN Append(errors, [type |-> type, batch |-> batch + 1])
                        ELSE errors
           /\ allQuestions' = IF n > 0
                              THEN allQuestions \o AssignIds(result.questions, currentId, request.difficulty)
                              ELSE allQuestions
           /\ currentId' = IF n > 0 THEN currentId + n ELSE currentId
           /\ globalBatchIndex' = globalBatchIndex + 1
           /\ IF delayNeeded(batch, batches(type, count))
              THEN /\ pc' = "delaying"
                   /\ UNCHANGED <<typeIndex, batch, callLog, response>>
              ELSE Advance(allQuestions', errors', currentId', globalBatchIndex')
    /\ UNCHANGED <<request, delayTotal>>

\* The inter-batch setTimeout fires and the loop goes round.
DelayElapsed ==
    /\ pc = "delaying"
    /\ delayTotal' = delayTotal + BatchDelayMs
    /\ Advance(allQuestions, errors, currentId, globalBatchIndex)
    /\ UNCHANGED <<request, allQuestions, errors, currentId, globalBatchIndex, outcomes>>

Receive ==
    /\ \E r \in Requests : POST(r)
    /\ UNCHANGED <<clientVars, applied, widgetVars>>

Settle ==
    /\ pc = "calling"
    /\ \E answer \in ServiceAnswers(callLog[Len(callLog)].type, callLog[Len(callLog)].count) :
            BatchReturns(answer)
    /\ UNCHANGED <<clientVars, applied, widgetVars>>

Elapse ==
    /\ DelayElapsed
    /\ UNCHANGED <<clientVars, applied, widgetVars>>

----------------------------------------------------------------------------
(* quiz-context.tsx: QuizState and quizReducer *)

Null == "null"

\* QuizPreview's editingIndex === null
NoIndex == -1

initialState ==
    [ config |-> Null,
      questions |-> <<>>,
      currentQuestionIndex |-> 0,
      showAnswers |-> FALSE,
      isGenerating |-> FALSE,
      quizStarted |-> FALSE,
      quizCompleted |-> FALSE ]

\* a question as generated: no userAnswer yet
Q(id) == [id |-> id, question |-> "Q", userAnswer |-> Undefined]

\* updatedQuestions[index] = question on a copy of the list (indices are
\* JavaScript's, from 0): a position of the list is replaced, the position
\* one past the end extends it, a negative index sets no element.
UpdateAt(qs, index, q) ==
    IF index >= 0 /\ index < Len(qs) THEN [qs EXCEPT ![index + 1] = q]
    ELSE IF index = Len(qs) THEN Append(qs, q)
    ELSE qs

RECURSIVE FilterIndexFromOne(_, _, _)
\* the filter counting positions from 1
FilterIndexFromOne(qs, i, payload) ==
    IF qs = <<>> THEN <<>>
    ELSE IF i + 1 # payload THEN <<Head(qs)>> \o FilterIndexFromOne(Tail(qs), i + 1, payload)
         ELSE FilterIndexFromOne(Tail(qs), i + 1, payload)

RECURSIVE FilterIndex(_, _, _)
\* questions.filter((_, index) => index !== payload), i the index of Head(qs)
FilterIndex(qs, i, payload) ==
    IF qs = <<>> THEN <<>>
    ELSE IF i # payload THEN <<Head(qs)>> \o FilterIndex(Tail(qs), i + 1, payload)
         ELSE FilterIndex(Tail(qs), i + 1, payload)

\* questions.map(q => q.id === questionId ? {...q, userAnswer: answer} : q), by position
SetUserAnswerFirst(qs, questionId, answer) ==
    [ i \in 1..Len(qs) |->
        IF qs[i].id = questionId /\ i = 1 THEN [qs[i] EXCEPT !.userAnswer = answer] ELSE qs[i] ]

\* questions.map(q => q.id === questionId ? {...q, userAnswer: answer} : q)
SetUserAnswer(qs, questionId, answer) ==
    [ i \in 1..Len(qs) |->
        IF qs[i].id = questionId THEN [qs[i] EXCEPT !.userAnswer = answer] ELSE qs[i] ]

\* RESET_QUIZ keeping what was loaded
ResetKeepingQuiz(s) ==
    [initialState EXCEPT !.config = s.config, !.questions = s.questions]

\* case "RESET_QUIZ": return initialState
ResetQuiz(s) == initialState

\* quizReducer with a SET_QUESTIONS that also rewinds the quiz
quizReducerRewinding(s, action) ==
    CASE action.type = "SET_CONFIG" -> [s EXCEPT !.config = action.payload]
      [] action.type = "SET_QUESTIONS" ->
            [s EXCEPT !.questions = action.payload, !.currentQuestionIndex = 0]
      [] action.type = "UPDATE_QUESTION" ->
            [s EXCEPT !.questions = UpdateAt(s.questions, action.payload.index, action.payload.question)]
      [] action.type = "DELETE_QUESTION" ->
            [s EXCEPT !.questions = FilterIndex(s.questions, 0, action.payload)]
      [] action.type = "SET_CURRENT_QUESTION" -> [s EXCEPT !.currentQuestionIndex = action.payload]
      [] action.type = "TOGGLE_ANSWERS" -> [s EXCEPT !.showAnswers = ~s.showAnswers]
      [] action.type = "SET_GENERATING" -> [s EXCEPT !.isGenerating = action.payload]
      [] action.type = "START_QUIZ" -> [s EXCEPT !.quizStarted = TRUE, !.currentQuestionIndex = 0]
      [] action.type = "COMPLETE_QUIZ" -> [s EXCEPT !.quizCompleted = TRUE]
      [] action.type = "SET_USER_ANSWER" ->
            [s EXCEPT !.questions =
                SetUserAnswer(s.questions, action.payload.questionId, action.payload.answer)]
      [] action.type = "RESET_QUIZ" -> ResetQuiz(s)
      [] OTHER -> s

\* function quizReducer(state, action): switch (action.type)
quizReducer(s, action) ==
    CASE action.type = "SET_CONFIG" -> [s EXCEPT !.config = action.payload]
      [] action.type = "SET_QUESTIONS" -> [s EXCEPT !.questions = action.payload]
      [] action.type = "UPDATE_QUESTION" ->
            [s EXCEPT !.questions = UpdateAt(s.questions, action.payload.index, action.payload.question)]
      [] action.type = "DELETE_QUESTION" ->
            [s EXCEPT !.questions = FilterIndex(s.questions, 0, action.payload)]
      [] action.type = "SET_CURRENT_QUESTION" -> [s EXCEPT !.currentQuestionIndex = action.payload]
      [] action.type = "TOGGLE_ANSWERS" -> [s EXCEPT !.showAnswers = ~s.showAnswers]
      [] action.type = "SET_GENERATING" -> [s EXCEPT !.isGenerating = action.payload]
      [] action.type = "START_QUIZ" -> [s EXCEPT !.quizStarted = TRUE, !.currentQuestionIndex = 0]
      [] action.type = "COMPLETE_QUIZ" -> [s EXCEPT !.quizCompleted = TRUE]
      [] action.type = "SET_USER_ANSWER" ->
            [s EXCEPT !.questions =
                SetUserAnswer(s.questions, action.payload.questionId, action.payload.answer)]
      [] action.type = "RESET_QUIZ" -> ResetQuiz(s)
      [] OTHER -> s

ClientInit ==
    /\ state = initialState
    /\ lastAction = [type |-> "@@INIT"]
    /\ currentState = "config"
    /\ editingIndex = NoIndex
    /\ editingQuestion = <<>>
    /\ pending = 0

----------------------------------------------------------------------------
(* The reducer under arbitrary actions *)

QuestionIds == {"q1", "q2"}

Answers == {"True", "False"}

\* the question lists given as SET_QUESTIONS payloads
PayloadLists == SeqsUpTo({ Q(id) : id \in QuestionIds }, MaxLen)

\* the question an UPDATE_QUESTION carries: an edited copy
EditedQuestion == [id |-> "q1", question |-> "E", userAnswer |-> Undefined]

\* The actions of type QuizAction tried on a state.  UPDATE_QUESTION's index
\* ranges over -1..length, the list being capped at MaxLen; an index beyond
\* the length (a sparse array in JavaScript) is not represented.
ActionsOn(s) ==
    { [type |-> "SET_CONFIG", payload |-> "form"],
      [type |-> "TOGGLE_ANSWERS"],
      [type |-> "START_QUIZ"],
      [type |-> "COMPLETE_QUIZ"],
      [type |-> "RESET_QUIZ"] }
    \cup { [type |-> "SET_QUESTIONS", payload |-> qs] : qs \in PayloadLists }
    \cup { [type |-> "UPDATE_QUESTION", payload |-> [index |-> i, question |-> EditedQuestion]] :
              i \in -1..Min(Len(s.questions), MaxLen - 1) }
    \cup { [type |-> "DELETE_QUESTION", payload |-> i] : i \in -1..MaxLen }
    \cup { [type |-> "SET_CURRENT_QUESTION", payload |-> i] : i \in -1..MaxLen }
    \cup { [type |-> "SET_GENERATING", payload |-> b] : b \in BOOLEAN }
    \cup { [type |-> "SET_USER_ANSWER", payload |-> [questionId |-> id, answer |-> a]] :
              id \in QuestionIds \cup {"q9"}, a \in Answers }

\* dispatch(action)
Dispatch(action) ==
    /\ state' = quizReducer(state, action)
    /\ lastAction' = action
    /\ UNCHANGED <<currentState, editingIndex, editingQuestion, pending>>
    /\ UNCHANGED <<serverVars, applied, widgetVars>>

NextReducer == \E action \in ActionsOn(state) : Dispatch(action)

----------------------------------------------------------------------------
(* The screens (Home, QuizConfigForm, QuizPreview, QuizMode, QuizResults) *)

RECURSIVE ReduceAll(_, _)
\* consecutive dispatches of one handler
ReduceAll(s, actions) ==
    IF actions = <<>> THEN s
    ELSE ReduceAll(quizReducer(s, Head(actions)), Tail(actions))

\* the questions of a 200 response of /api/generate-questions: n >= 1
\* questions with the ids q1..qn
Generated(n) == [ i \in 1..n |-> Q(QId(i)) ]

\* what fetch("/api/generate-questions") may settle with
FetchResults ==
    { [ok |-> FALSE, questions |-> <<>>] } \cup
    { [ok |-> TRUE, questions |-> Generated(n)] : n \in 1..MaxQuiz }

\* the question lists of quiz files: exported lists, one with answers already
\* recorded, an empty one, and one written by hand with a repeated id
FileLists ==
    { Generated(n) : n \in 0..MaxQuiz } \cup
    { <<[Q("q1") EXCEPT !.userAnswer = "True"]>>,
      <<Q("q1"), Q("q1")>> }

\* the files a user may pick: text that JSON.parse rejects, an object
\* lacking config or questions, or a quiz
ImportFiles ==
    { [parses |-> FALSE, hasConfig |-> FALSE, hasQuestions |-> FALSE, config |-> Null, questions |-> <<>>],
      [parses |-> TRUE, hasConfig |-> FALSE, hasQuestions |-> TRUE, config |-> Null, questions |-> Generated(1)],
      [parses |-> TRUE, hasConfig |-> TRUE, hasQuestions |-> FALSE, config |-> "file", questions |-> <<>>] }
    \cup
    { [parses |-> TRUE, hasConfig |-> TRUE, hasQuestions |-> TRUE, config |-> "file", questions |-> qs] :
        qs \in FileLists }

\* try { JSON.parse ... if (quizData.config && quizData.questions) {...} } catch {}
Importable(file) == file.parses /\ file.hasConfig /\ file.hasQuestions

\* the dispatches of an import that also rewinds the quiz
ImportDispatchesRewinding(file) ==
    << [type |-> "SET_CONFIG", payload |-> file.config],
       [type |-> "SET_QUESTIONS", payload |-> file.questions],
       [type |-> "SET_CURRENT_QUESTION", payload |-> 0] >>

\* the dispatches of a successful import
ImportDispatches(file) ==
    << [type |-> "SET_CONFIG", payload |-> file.config],
       [type |-> "SET_QUESTIONS", payload |-> file.questions] >>

\* setCurrentState(next): QuizPreview's local state lives while it is mounted
Show(next) ==
    /\ currentState' = next
    /\ IF next = "preview" /\ currentState = "preview"
       THEN UNCHANGED <<editingIndex, editingQuestion>>
       ELSE editingIndex' = NoIndex /\ editingQuestion' = <<>>

appFrame == <<serverVars, lastAction, applied, widgetVars>>

\* QuizConfigForm.handleSubmit up to its await
handleSubmit(formOk) ==
    /\ currentState = "config"
    /\ IF formOk
       THEN /\ pending < MaxPending
            /\ state' = ReduceAll(state, << [type |-> "SET_CONFIG", payload |-> "form"],
                                            [type |-> "SET_GENERATING", payload |-> TRUE] >>)
            /\ pending' = pending + 1
       ELSE UNCHANGED <<state, pending>>
    /\ UNCHANGED <<currentState, editingIndex, editingQuestion, appFrame>>

\* QuizConfigForm.handleSubmit from the settling of its fetch to the end
handleSubmitSettled(result) ==
    /\ pending > 0
    /\ pending' = pending - 1
    /\ IF result.ok
       THEN /\ state' = ReduceAll(state, << [type |-> "SET_QUESTIONS", payload |-> result.questions],
                                            [type |-> "SET_GENERATING", payload |-> FALSE] >>)
            /\ Show("preview")
       ELSE /\ state' = quizReducer(state, [type |-> "SET_GENERATING", payload |-> FALSE])
            /\ UNCHANGED <<currentState, editingIndex, editingQuestion>>
    /\ UNCHANGED appFrame

\* QuizConfigForm.handleJSONImport, with reader.onload
handleJSONImport(file) ==
    /\ currentState = "config"
    /\ IF Importable(file)
       THEN /\ state' = ReduceAll(state, ImportDispatches(file))
            /\ Show("preview")
       ELSE UNCHANGED <<state, currentState, editingIndex, editingQuestion>>
    /\ UNCHANGED <<pending, appFrame>>

PreviewShown == currentState = "preview" /\ Len(state.questions) > 0

\* QuizPreview.handleImportJSON, with reader.onload
handleImportJSON(file) ==
    /\ PreviewShown
    /\ IF Importable(file)
       THEN state' = ReduceAll(state, ImportDispatches(file))
       ELSE UNCHANGED state
    /\ UNCHANGED <<currentState, editingIndex, editingQuestion, pending, appFrame>>

\* QuizPreview: onBack (also offered when there are no questions)
previewBack ==
    /\ currentState = "preview"
    /\ Show("config")
    /\ UNCHANGED <<state, pending, appFrame>>

\* QuizPreview: Show/Hide Answers
toggleAnswers ==
    /\ PreviewShown
    /\ state' = quizReducer(state, [type |-> "TOGGLE_ANSWERS"])
    /\ UNCHANGED <<currentState, editingIndex, editingQuestion, pending, appFrame>>

\* QuizPreview.handleEditQuestion(index)
handleEditQuestion(index) ==
    /\ PreviewShown
    /\ index \in 0..(Len(state.questions) - 1)
    /\ editingIndex' = index
    /\ editingQuestion' = <<state.questions[index + 1]>>
    /\ UNCHANGED <<state, currentState, pending, appFrame>>

\* the editor of a card is rendered when editingIndex === index
EditorShown == PreviewShown /\ editingIndex \in 0..(Len(state.questions) - 1)

\* the question Textarea of the editor: setEditingQuestion(prev => prev ? {...prev, question} : null)
editText ==
    /\ EditorShown
    /\ editingQuestion # <<>>
    /\ editingQuestion' = <<[editingQuestion[1] EXCEPT !.question = "E"]>>
    /\ UNCHANGED <<state, currentState, editingIndex, pending, appFrame>>

\* QuizPreview.handleSaveEdit
handleSaveEdit ==
    /\ EditorShown
    /\ IF editingIndex # NoIndex /\ editingQuestion # <<>>
       THEN /\ state' = quizReducer(state,
                  [type |-> "UPDATE_QUESTION",
                   payload |-> [index |-> editingIndex, question |-> editingQuestion[1]]])
            /\ editingIndex' = NoIndex
            /\ editingQuestion' = <<>>
       ELSE UNCHANGED <<state, editingIndex, editingQuestion>>
    /\ UNCHANGED <<currentState, pending, appFrame>>

\* the editor's Cancel: setEditingIndex(null)
cancelEdit ==
    /\ EditorShown
    /\ editingIndex' = NoIndex
    /\ UNCHANGED <<state, currentState, editingQuestion, pending, appFrame>>

\* QuizPreview.handleDeleteQuestion(index)
handleDeleteQuestion(index) ==
    /\ PreviewShown
    /\ index \in 0..(Len(state.questions) - 1)
    /\ state' = quizReducer(state, [type |-> "DELETE_QUESTION", payload |-> index])
    /\ UNCHANGED <<currentState, editingIndex, editingQuestion, pending, appFrame>>

\* QuizPreview: Start Quiz (onStartQuiz)
startQuiz ==
    /\ PreviewShown
    /\ Show("quiz")
    /\ UNCHANGED <<state, pending, appFrame>>

\* QuizMode: const currentQuestion = questions[currentQuestionIndex]
HasCurrentQuestion ==
    /\ state.currentQuestionIndex >= 0
    /\ state.currentQuestionIndex < Len(state.questions)

QuizShown == currentState = "quiz" /\ HasCurrentQuestion

\* QuizMode.handleAnswerSubmit, answer being the selected or typed answer
handleAnswerSubmit(answer) ==
    /\ QuizShown
    /\ LET currentQuestion == state.questions[state.currentQuestionIndex + 1]
           isLastQuestion == state.currentQuestionIndex = Len(state.questions) - 1
           answered == [type |-> "SET_USER_ANSWER",
                        payload |-> [questionId |-> currentQuestion.id, answer |-> answer]]
       IN  IF answer = " "
           THEN UNCHANGED <<state, currentState, editingIndex, editingQuestion>>
           ELSE IF isLastQuestion
           THEN /\ state' = ReduceAll(state, <<answered, [type |-> "COMPLETE_QUIZ"]>>)
                /\ Show("results")
           ELSE /\ state' = ReduceAll(state, <<answered,
                        [type |-> "SET_CURRENT_QUESTION", payload |-> state.currentQuestionIndex + 1]>>)
                /\ UNCHANGED <<currentState, editingIndex, editingQuestion>>
    /\ UNCHANGED <<pending, appFrame>>

\* QuizMode.handlePreviousQuestion
handlePreviousQuestion ==
    /\ QuizShown
    /\ IF state.currentQuestionIndex > 0
       THEN state' = quizReducer(state,
                [type |-> "SET_CURRENT_QUESTION", payload |-> state.currentQuestionIndex - 1])
       ELSE UNCHANGED state
    /\ UNCHANGED <<currentState, editingIndex, editingQuestion, pending, appFrame>>

\* QuizMode.goToQuestion(index), from the navigation panel
goToQuestion(index) ==
    /\ QuizShown
    /\ index \in 0..(Len(state.questions) - 1)
    /\ state' = quizReducer(state, [type |-> "SET_CURRENT_QUESTION", payload |-> index])
    /\ UNCHANGED <<currentState, editingIndex, editingQuestion, pending, appFrame>>

\* QuizMode: onBack (also offered when there is no current question)
quizBack ==
    /\ currentState = "quiz"
    /\ Show("preview")
    /\ UNCHANGED <<state, pending, appFrame>>

\* QuizResults: onBack
resultsBack ==
    /\ currentState = "results"
    /\ Show("config")
    /\ UNCHANGED <<state, pending, appFrame>>

\* QuizResults: Review Questions (onReview)
resultsReview ==
    /\ currentState = "results"
    /\ Show("preview")
    /\ UNCHANGED <<state, pending, appFrame>>

Submit == \E formOk \in BOOLEAN : handleSubmit(formOk)

SubmitSettled == \E result \in FetchResults : handleSubmitSettled(result)

ImportInForm == \E file \in ImportFiles : handleJSONImport(file)

ImportInPreview == \E file \in ImportFiles : handleImportJSON(file)

EditQuestion == \E index \in 0..MaxQuiz : handleEditQuestion(index)

DeleteQuestion == \E index \in 0..MaxQuiz : handleDeleteQuestion(index)

AnswerSubmit == \E answer \in {"True", " "} : handleAnswerSubmit(answer)

GoToQuestion == \E index \in 0..MaxQuiz : goToQuestion(index)

NextApp ==
    \/ Submit
    \/ SubmitSettled
    \/ ImportInForm
    \/ ImportInPreview
    \/ previewBack
    \/ toggleAnswers
    \/ EditQuestion
    \/ editText
    \/ handleSaveEdit
    \/ cancelEdit
    \/ DeleteQuestion
    \/ startQuiz
    \/ AnswerSubmit
    \/ handlePreviousQuestion
    \/ GoToQuestion
    \/ quizBack
    \/ resultsBack
    \/ resultsReview

----------------------------------------------------------------------------
(* MatchingQuestion (src/components/matching-question.tsx) *)

ItemNumbers == 1..MaxItems

\* the ids of props.leftItems and props.rightItems, as the prompt numbers them
leftItems == { <<"term", i>> : i \in ItemNumbers }

rightItems == { <<"def", i>> : i \in ItemNumbers }

NoItem == <<>>

\* useState(userAnswer) with userAnswer = {}, useState(null)
WidgetInit ==
    /\ matches = {}
    /\ draggedItem = NoItem

\* Object.keys(m).forEach(key => { if (m[key] === value) delete m[key] })
DeleteValue(m, value) == { entry \in m : entry[2] # value }

\* delete m[key]
DeleteKey(m, key) == { entry \in m : entry[1] # key }

\* m[key] = value
SetKey(m, key, value) == DeleteKey(m, key) \cup { <<key, value>> }

\* newMatches of a drop that leaves the dragged item's earlier match in place
newMatchesKeepingEarlier(m, dragged, targetId) ==
    SetKey(DeleteKey(m, targetId), targetId, dragged)

\* newMatches as handleDrop builds it from a copy of matches
newMatches(m, dragged, targetId) ==
    SetKey(DeleteKey(DeleteValue(m, dragged), targetId), targetId, dragged)

\* handleDragStart(e, itemId), on a left item
handleDragStart(itemId) ==
    /\ draggedItem' = itemId
    /\ UNCHANGED <<matches, serverVars, clientVars, applied>>

\* handleDrop(e, targetId), on a right item
handleDrop(targetId) ==
    /\ IF draggedItem # NoItem
       THEN matches' = newMatches(matches, draggedItem, targetId)
       ELSE UNCHANGED matches
    /\ draggedItem' = NoItem
    /\ UNCHANGED <<serverVars, clientVars, applied>>

\* handleReset
handleReset ==
    /\ matches' = {}
    /\ UNCHANGED <<draggedItem, serverVars, clientVars, applied>>

DragStart == \E itemId \in leftItems : handleDragStart(itemId)

Drop == \E targetId \in rightItems : handleDrop(targetId)

NextWidget ==
    \/ DragStart
    \/ Drop
    \/ handleReset

----------------------------------------------------------------------------
(* The helper functions of the route applied on their own *)

\* no helper applied yet
NotApplied == [fn |-> "none"]

\* the items of a schema-conforming answer: id, question and answer may be
\* empty strings, answer may be an empty array; type and difficulty are
\* enum members
BatchItems(type) ==
    { GoodItem(type),
      [GoodItem(type) EXCEPT !.id = ""],
      [GoodItem(type) EXCEPT !.question = ""],
      [GoodItem(type) EXCEPT !.answer = ""],
      [GoodItem(type) EXCEPT !.answer = EmptyArray] }

BatchAnswers(type) ==
    {ServiceFailure} \cup
    { [ok |-> TRUE, questions |-> s] : s \in SeqsUpTo(BatchItems(type), MaxAnswer) }

\* generateQuestionBatch(type, count, ...) with the service doing `answer`
ApplyBatch ==
    /\ applied = NotApplied
    /\ \E type \in {"MCQ", "ESSAY"} :
         \E count \in {1, maxBatchSize(type)}, answer \in BatchAnswers(type) :
            applied' = [ fn |-> "generateQuestionBatch", type |-> type, count |-> count,
                         answer |-> answer,
                         result |-> generateQuestionBatch(type, count, answer) ]
    /\ UNCHANGED <<serverVars, clientVars, widgetVars>>

\* getContentChunk(notes, chunkIndex, totalChunks)
ApplyChunk ==
    /\ applied = NotApplied
    /\ \E len \in 1..MaxNotes, chunkIndex \in 0..MaxIndex, totalChunks \in -1..MaxChunks :
            applied' = [ fn |-> "getContentChunk", notes |-> NotesOfLength(len),
                         chunkIndex |-> chunkIndex, totalChunks |-> totalChunks,
                         result |-> getContentChunk(NotesOfLength(len), chunkIndex, totalChunks) ]
    /\ UNCHANGED <<serverVars, clientVars, widgetVars>>

\* extractTopics(chunk, count), pieces being the split of the chunk
ApplyTopics ==
    /\ applied = NotApplied
    /\ \E pieces \in Pieces(MaxSentences), count \in 0..MaxTopics :
            applied' = [ fn |-> "extractTopics", pieces |-> pieces, count |-> count,
                         result |-> extractTopics(pieces, count) ]
    /\ UNCHANGED <<serverVars, clientVars, widgetVars>>

NextHelpers ==
    \/ ApplyBatch
    \/ ApplyChunk
    \/ ApplyTopics

----------------------------------------------------------------------------
(* Specifications *)

Init == ServerInit /\ ClientInit /\ applied = NotApplied /\ WidgetInit

\* one run of POST /generate-questions against the external service
Next ==
    \/ Receive
    \/ Settle
    \/ Elapse

Spec == Init /\ [][Next]_vars

\* quizReducer under every sequence of actions
SpecReducer == Init /\ [][NextReducer]_vars

\* the screens of the app and their handlers
SpecApp == Init /\ [][NextApp]_vars

\* getContentChunk and generateQuestionBatch, each behaviour being one
\* application to one input up to the bounds
SpecHelpers == Init /\ [][NextHelpers]_vars

\* the matching widget of one question
SpecWidget == Init /\ [][NextWidget]_vars

----------------------------------------------------------------------------
(* Properties of POST /generate-questions *)

\* the request is one the validation lets through, by the spec's wording:
\* counts summing to 1..50 and notes of at least 100 characters
CountsInRange(r) ==
    /\ totalQuestions(r.questionCounts) >= 1
    /\ totalQuestions(r.questionCounts) <= MaxQuestions

LongNotes(r) == r.notes.present /\ r.notes.length >= MinNotesLength

Answered == pc = "done"

\* C1: for counts summing to 1..50 and notes of at least 100 characters, and
\* whatever the batches did, the response is either a 200 with at least one
\* question, every one of them valid, or an explicit failure (status 400/500
\* with an error message); never a 200 with an empty list.
C1_NeverEmptySuccess ==
    (Answered /\ CountsInRange(request) /\ LongNotes(request)) =>
        \/ /\ response.status = 200
           /\ Len(response.questions) >= 1
           /\ \A i \in 1..Len(response.questions) : IsValid(response.questions[i])
        \/ /\ response.status \in {400, 500}
           /\ response.error # Undefined
           /\ response.questions = <<>>

\* a run in which one batch failed and another produced questions, answered 200
C1_Witness ==
    /\ Answered /\ CountsInRange(request) /\ LongNotes(request)
    /\ response.status = 200
    /\ "failed" \in { outcomes[i] : i \in 1..Len(outcomes) }
    /\ Len(response.questions) >= 1

PlannedOfType(type, c) ==
    [ b \in 1..Ceil(c, maxBatchSize(type)) |->
        [ type |-> type,
          count |-> IF b * maxBatchSize(type) <= c
                    THEN maxBatchSize(type)
                    ELSE c - (b - 1) * maxBatchSize(type) ] ]

Planned(counts) ==
    PlannedOfType("MCQ", counts["MCQ"]) \o PlannedOfType("TF", counts["TF"]) \o
    PlannedOfType("MATCHING", counts["MATCHING"]) \o PlannedOfType("ESSAY", counts["ESSAY"])

CallsMade == [ i \in 1..Len(callLog) |-> [type |-> callLog[i].type, count |-> callLog[i].count] ]

NumFailed == Cardinality({ i \in 1..Len(outcomes) : outcomes[i] = "failed" })

\* C3: once validation has passed, a failed batch never stops the run: the
\* calls made are always a prefix of the plan (no retry, no skip) and, when
\* the run has answered, the whole plan; every failed batch left one entry in
\* the error list; and the step in which a batch fails adds no question and
\* one error, and leaves the run going unless it was the last planned batch.
C3_FailureIsolated ==
    [][ (pc = "calling") =>
          /\ Len(callLog') <= Len(Planned(request.questionCounts))
          /\ CallsMade' = SubSeq(Planned(request.questionCounts), 1, Len(callLog'))
          /\ Len(errors') = NumFailed'
          /\ (pc' = "done" => CallsMade' = Planned(request.questionCounts))
          /\ (outcomes'[Len(outcomes')] = "failed" =>
                /\ allQuestions' = allQuestions
                /\ Len(errors') = Len(errors) + 1
                /\ (Len(outcomes') < Len(Planned(request.questionCounts)) => pc' # "done"))
      ]_vars

\* a run whose first batch failed and which nevertheless made all its planned
\* calls, three or more, and got questions from a later one
C3_Witness ==
    /\ Answered
    /\ Len(outcomes) >= 3
    /\ outcomes[1] = "failed"
    /\ CallsMade = Planned(request.questionCounts)
    /\ Len(allQuestions) >= 1

\* C4: a run with at least one valid question but fewer than requested is
\* answered 200, with the valid questions, generated = their number,
\* requested = the total requested, and errors present exactly if a batch failed.
C4_PartialSuccess ==
    (Answered /\ Validate(request) = NoResponse
        /\ (\E i \in 1..Len(allQuestions) : IsValid(allQuestions[i]))
        /\ Cardinality({ i \in 1..Len(allQuestions) : IsValid(allQuestions[i]) })
              < totalQuestions(request.questionCounts)) =>
        /\ response.status = 200
        /\ response.error = Undefined
        /\ Len(response.questions) =
              Cardinality({ i \in 1..Len(allQuestions) : IsValid(allQuestions[i]) })
        /\ \A i \in 1..Len(response.questions) :
              /\ IsValid(response.questions[i])
              /\ \E j \in 1..Len(allQuestions) : allQuestions[j] = response.questions[i]
        /\ response.generated = Len(response.questions)
        /\ response.requested = totalQuestions(request.questionCounts)
        /\ response.errors.defined <=> (NumFailed > 0)
        /\ response.errors.defined => Len(response.errors.value) = NumFailed

\* a shortfall with no failed batch: two or more requested, one returned
C4_Witness ==
    /\ Answered
    /\ response.status = 200
    /\ response.generated = 1
    /\ response.requested >= 2
    /\ ~response.errors.defined

\* C5: in every 200 response the questions carry the ids q1, q2, ..., qN in
\* list order; so every id is non-empty and no two questions share one.
C5_SequentialIds ==
    (Answered /\ response.status = 200) =>
        /\ \A i \in 1..Len(response.questions) :
              /\ response.questions[i].id = "q" \o ToString(i)
              /\ response.questions[i].id # ""
        /\ \A i, j \in 1..Len(response.questions) :
              i # j => response.questions[i].id # response.questions[j].id

\* three or more questions returned after a failed batch and a batch whose
\* answer lost an item to the validity filter
C5_Witness ==
    /\ Answered /\ response.status = 200
    /\ Len(response.questions) >= 3
    /\ NumFailed >= 1
    /\ Len(outcomes) >= 3

\* C6: in every client state reached through the screens, a non-empty
\* question list has 0 <= currentQuestionIndex < questions.length.
C6_IndexInRange ==
    state.questions # <<>> =>
        /\ 0 <= state.currentQuestionIndex
        /\ state.currentQuestionIndex < Len(state.questions)

\* C7: in every client state reached through the screens, no two questions
\* of the list have the same id.
C7_UniqueIds ==
    \A i, j \in 1..Len(state.questions) :
        state.questions[i].id = state.questions[j].id => i = j

\* C8: a SET_USER_ANSWER(id, a) step gives userAnswer = a to the questions
\* whose id is id, keeping their other fields; it keeps every other question,
\* the length and order of the list, config, currentQuestionIndex and the
\* four flags; when no question has the id the state is as before.
C8_SetUserAnswerFrame ==
    [][ lastAction'.type = "SET_USER_ANSWER" =>
          LET id == lastAction'.payload.questionId
              a == lastAction'.payload.answer
          IN  /\ Len(state'.questions) = Len(state.questions)
              /\ \A i \in 1..Len(state.questions) :
                    IF state.questions[i].id = id
                    THEN /\ state'.questions[i].userAnswer = a
                         /\ state'.questions[i].id = state.questions[i].id
                         /\ state'.questions[i].question = state.questions[i].question
                    ELSE state'.questions[i] = state.questions[i]
              /\ state'.config = state.config
              /\ state'.currentQuestionIndex = state.currentQuestionIndex
              /\ state'.showAnswers = state.showAnswers
              /\ state'.isGenerating = state.isGenerating
              /\ state'.quizStarted = state.quizStarted
              /\ state'.quizCompleted = state.quizCompleted
              /\ (\A i \in 1..Len(state.questions) : state.questions[i].id # id)
                    => state' = state ]_vars

\* C8's case: the second of two questions with different ids has just been
\* answered, the first one keeps its answer
C8_Witness ==
    /\ lastAction.type = "SET_USER_ANSWER"
    /\ Len(state.questions) = 2
    /\ state.questions[2].id = lastAction.payload.questionId
    /\ state.questions[1].id # lastAction.payload.questionId
    /\ state.questions[2].userAnswer = lastAction.payload.answer
    /\ state.questions[1].userAnswer = "False"
    /\ lastAction.payload.answer = "True"
    /\ state.currentQuestionIndex = 1

\* C9: a RESET_QUIZ step from any state ends in the initial state (config
\* null, no questions, index 0, the four flags false), and a second
\* RESET_QUIZ leaves that state as it is.
C9_ResetYieldsInitial ==
    [][ lastAction'.type = "RESET_QUIZ" =>
          /\ state' = [ config |-> "null", questions |-> <<>>, currentQuestionIndex |-> 0,
                        showAnswers |-> FALSE, isGenerating |-> FALSE,
                        quizStarted |-> FALSE, quizCompleted |-> FALSE ]
          /\ quizReducer(state', [type |-> "RESET_QUIZ"]) = state' ]_vars

\* C9's case: RESET_QUIZ has been applied and the quiz is empty again
C9_Witness ==
    /\ lastAction.type = "RESET_QUIZ"
    /\ state.questions = <<>>
    /\ state.config = Null
    /\ ~state.quizStarted

\* C10: an import step (from the form or from the preview) of a file with
\* config and questions makes config and questions the file's and keeps
\* currentQuestionIndex and the four flags; an import step of a file that
\* does not parse or lacks config or questions keeps the whole QuizState.
C10_ImportFrame ==
    [][ \A file \in ImportFiles :
          (handleJSONImport(file) \/ handleImportJSON(file)) =>
              IF file.parses /\ file.hasConfig /\ file.hasQuestions
              THEN /\ state'.config = file.config
                   /\ state'.questions = file.questions
                   /\ state'.currentQuestionIndex = state.currentQuestionIndex
                   /\ state'.showAnswers = state.showAnswers
                   /\ state'.isGenerating = state.isGenerating
                   /\ state'.quizStarted = state.quizStarted
                   /\ state'.quizCompleted = state.quizCompleted
              ELSE state' = state ]_vars

\* C10's case: a file's config and questions are in memory after a quiz was
\* completed, the index and the flags being those of before the import
C10_Witness ==
    /\ state.config = "file"
    /\ state.questions = <<Q("q1"), Q("q1")>>
    /\ state.currentQuestionIndex = 1
    /\ state.quizCompleted
    /\ state.showAnswers
    /\ currentState = "preview"

----------------------------------------------------------------------------
(* Properties of the batching: delays, order, sizes *)

Range(f) == { f[i] : i \in DOMAIN f }

\* the number of question types with a count above 0 in the request
TypesRequested == Cardinality({ t \in Types : request.questionCounts[t] > 0 })

IsPrefix(a, b) == Len(a) <= Len(b) /\ SubSeq(b, 1, Len(a)) = a

\* the place of a type in the order MCQ, TF, MATCHING, ESSAY
TypePos(t) == CHOOSE i \in 1..4 : <<"MCQ", "TF", "MATCHING", "ESSAY">>[i] = t

\* C15: at most one batch call is unsettled at any time; the calls come in
\* the type order MCQ, TF, MATCHING, ESSAY; the k-th call (from 0, failed
\* ones included) carries batch index k; the call in flight was given all
\* the questions accepted so far, and each call's list extends the list of
\* the call before it.
C15_SequentialBatches ==
    /\ Len(callLog) - Len(outcomes) = (IF pc = "calling" THEN 1 ELSE 0)
    /\ \A k \in 1..Len(callLog) :
          /\ callLog[k].batchIndex = k - 1
          /\ k > 1 => /\ TypePos(callLog[k - 1].type) <= TypePos(callLog[k].type)
                      /\ IsPrefix(callLog[k - 1].existingQuestions, callLog[k].existingQuestions)
    /\ callLog # <<>> =>
          /\ callLog[1].existingQuestions = <<>>
          /\ IsPrefix(callLog[Len(callLog)].existingQuestions, allQuestions)
    /\ pc = "calling" => callLog[Len(callLog)].existingQuestions = allQuestions

\* C15's case: the third call of a run is in flight, for another type than
\* the first, after a failed batch and an accepted question
C15_Witness ==
    /\ pc = "calling"
    /\ Len(callLog) = 3
    /\ callLog[3].type # callLog[1].type
    /\ "failed" \in Range(outcomes)
    /\ callLog[3].existingQuestions # <<>>
    /\ callLog[3].batchIndex = 2

\* the request passes the validation
Accepted(r) ==
    /\ CountsInRange(r)
    /\ r.notes.present
    /\ r.notes.trimLength >= 100

\* the positions of the calls made for type t
CallsOfType(t) == { k \in 1..Len(callLog) : callLog[k].type = t }

RECURSIVE SumOfCounts(_)
\* the sum of the sizes requested by the calls at the positions K
SumOfCounts(K) ==
    IF K = {} THEN 0
    ELSE LET k == CHOOSE x \in K : TRUE
         IN  callLog[k].count + SumOfCounts(K \ {k})

\* the maximum batch size C16 names for a type
NamedMax(t) == IF t \in {"MCQ", "TF"} THEN 3 ELSE 2

\* C16: when a run has answered, each type with count c > 0 and maximum
\* batch size m got exactly ceil(c/m) calls, each for 1..m questions, their
\* sizes summing to c; a type with count 0 got none; and the calls are no
\* more than the questions requested.
C16_BatchPlan ==
    (Answered /\ Accepted(request)) =>
        /\ \A t \in Types :
              LET c == request.questionCounts[t]
                  m == NamedMax(t)
              IN  /\ Cardinality(CallsOfType(t)) = (c + m - 1) \div m
                  /\ \A k \in CallsOfType(t) : callLog[k].count >= 1 /\ callLog[k].count <= m
                  /\ SumOfCounts(CallsOfType(t)) = c
        /\ Len(callLog) <= totalQuestions(request.questionCounts)

\* C16's case: a run with a count that is no multiple of the batch size and
\* a second type has answered
C16_Witness ==
    /\ Answered /\ Accepted(request)
    /\ request.questionCounts["MATCHING"] = 3
    /\ request.questionCounts["MCQ"] = 1
    /\ Len(callLog) = 3
    /\ callLog[3].count = 1

\* C17: the step in which a batch settles, ok or failed, ends in the delay
\* exactly when another batch of the same type is still to come, and no call
\* is made in that step; a call for the same type as the call before it is
\* made only out of the delay, 1000 ms later; a call for another type is made
\* straight after the batch before it, no delay between them.
C17_DelayBetweenSameType ==
    [][ /\ (Len(outcomes') = Len(outcomes) + 1) =>
              LET t == callLog[Len(callLog)].type
                  c == request.questionCounts[t]
                  m == NamedMax(t)
              IN  /\ (pc' = "delaying") <=> (Cardinality(CallsOfType(t)) < (c + m - 1) \div m)
                  /\ (pc' = "delaying") => (callLog' = callLog /\ delayTotal' = delayTotal)
        /\ (Len(callLog') = Len(callLog) + 1 /\ callLog # <<>>) =>
              IF callLog'[Len(callLog')].type = callLog[Len(callLog)].type
              THEN pc = "delaying" /\ delayTotal' = delayTotal + 1000
              ELSE pc = "calling" /\ delayTotal' = delayTotal
      ]_vars

\* C17's case: the first batch failed and was followed by the delay and a
\* second batch of its type, after which the next type's batch was called
\* with no further delay
C17_Witness ==
    /\ pc = "calling"
    /\ Len(callLog) = 3
    /\ outcomes[1] = "failed"
    /\ callLog[2].type = callLog[1].type
    /\ callLog[3].type # callLog[2].type
    /\ delayTotal = 1000

----------------------------------------------------------------------------
(* Properties of the questions returned *)

\* every MCQ question accepted from the service has four options
Complied ==
    \A i \in 1..Len(allQuestions) :
        allQuestions[i].type = "MCQ" => Len(allQuestions[i].options) = 4

\* C12: in a 200 response of a run in which the service kept to the
\* four-option instruction, every MCQ question has exactly 4 options and its
\* answer is one of them.
C12_McqAnswerAmongOptions ==
    (Answered /\ response.status = 200 /\ Complied) =>
        \A i \in 1..Len(response.questions) :
            response.questions[i].type = "MCQ" =>
                /\ Len(response.questions[i].options) = 4
                /\ response.questions[i].answer \in Range(response.questions[i].options)

\* C13: in a 200 response every key of a MATCHING question's correctMatches
\* is the id of one of its rightItems and every value the id of one of its
\* leftItems.
C13_MatchesNameItems ==
    (Answered /\ response.status = 200) =>
        \A i \in 1..Len(response.questions) :
            response.questions[i].type = "MATCHING" =>
                \A m \in response.questions[i].correctMatches :
                    /\ m[1] \in Range(response.questions[i].rightItems)
                    /\ m[2] \in Range(response.questions[i].leftItems)

----------------------------------------------------------------------------
(* Properties of the validation *)

\* C14: a request whose notes are absent, null or the empty string is
\* answered 400, whatever its counts, and no batch call is made for it.
C14_MissingNotesRejected ==
    (Answered /\ (~request.notes.present \/ request.notes.length = 0)) =>
        /\ response.status = 400
        /\ callLog = <<>>

----------------------------------------------------------------------------
(* Properties of generateQuestionBatch and getContentChunk *)

\* id, type, question, answer and difficulty are all present and non-empty
AllFiveNonEmpty(q) ==
    /\ q.id # ""
    /\ q.type # ""
    /\ q.question # ""
    /\ q.answer # "" /\ q.answer # "[]"
    /\ q.difficulty # ""

RECURSIVE Kept(_)
\* the items of a list that have all five fields, in their order
Kept(items) ==
    IF items = <<>> THEN <<>>
    ELSE IF AllFiveNonEmpty(Head(items)) THEN <<Head(items)>> \o Kept(Tail(items))
         ELSE Kept(Tail(items))

\* C18: when the service answers, generateQuestionBatch returns exactly the
\* items of the answer whose id, type, question, answer and difficulty are
\* all present and non-empty, in their order and unchanged, with no error.
C18_FilterKeepsComplete ==
    (applied.fn = "generateQuestionBatch" /\ applied.answer.ok) =>
        /\ applied.result.questions = Kept(applied.answer.questions)
        /\ applied.result.error = Undefined

\* the characters of a chunk that come from the notes
Drawn(chunk) == { k \in 1..Len(chunk) : chunk[k] # 0 }

\* C19: for non-empty notes of length len, a batch index i >= 0 and a chunk
\* count n >= 1, the chunk is at most ceil(len/n) + 1 characters long, the
\* extra one being the joining blank, at least half of ceil(len/n), not
\* empty, and holds at most len characters of the notes.
C19_ChunkLength ==
    (applied.fn = "getContentChunk" /\ applied.totalChunks >= 1) =>
        LET len == Len(applied.notes)
            n == applied.totalChunks
            size == (len + n - 1) \div n
            chunk == applied.result
        IN  /\ Len(chunk) <= size + 1
            /\ Len(chunk) = size + 1 => \E k \in 1..Len(chunk) : chunk[k] = 0
            /\ 2 * Len(chunk) >= size
            /\ Len(chunk) >= 1
            /\ Cardinality(Drawn(chunk)) <= len

\* C19's case: the last chunk of 7 characters cut in 3 is one character
\* long and is wrapped around to 3 + 1 characters
C19_Witness ==
    /\ applied.fn = "getContentChunk"
    /\ Len(applied.notes) = 7
    /\ applied.totalChunks = 3
    /\ applied.chunkIndex = 2
    /\ applied.result = <<7, 0, 1, 2>>

\* C20 as stated: with a chunk count of 1 or less the chunk is the whole
\* notes, for every batch index.
C20_WholeUpToOneChunk ==
    (applied.fn = "getContentChunk" /\ applied.totalChunks <= 1) =>
        applied.result = applied.notes

\* C20, amended: with a chunk count of exactly 1 the chunk is the whole
\* notes, for every batch index.
C20_WholeForOneChunk ==
    (applied.fn = "getContentChunk" /\ applied.totalChunks = 1) =>
        applied.result = applied.notes

\* C20's case: one chunk asked for at a batch index past the first
C20_Witness ==
    /\ applied.fn = "getContentChunk"
    /\ applied.totalChunks = 1
    /\ applied.chunkIndex = 3
    /\ Len(applied.notes) = 5
    /\ applied.result = <<1, 2, 3, 4, 5>>

----------------------------------------------------------------------------
(* Properties of extractTopics *)

RECURSIVE SentencesOfAtLeast(_, _)
\* the pieces of at least n characters, in their order
SentencesOfAtLeast(pieces, n) ==
    IF pieces = <<>> THEN <<>>
    ELSE IF Head(pieces).trimLength >= n
         THEN <<Head(pieces)>> \o SentencesOfAtLeast(Tail(pieces), n)
         ELSE SentencesOfAtLeast(Tail(pieces), n)

\* count topics sampled from the kept sentences: min(count, kept) of them,
\* the i-th (from 0) being the kept sentence at floor(i x kept / count)
Sampled(kept, count) ==
    [ i \in 1..(IF count < Len(kept) THEN count ELSE Len(kept)) |->
        kept[(((i - 1) * Len(kept)) \div count) + 1] ]

\* C21 as stated: extractTopics keeps the sentences of at least 20
\* characters and returns min(count, kept) topics, the i-th being the kept
\* sentence at floor(i x kept / count).
C21_TopicsOfTwentyOrMore ==
    (applied.fn = "extractTopics") =>
        applied.result = Sampled(SentencesOfAtLeast(applied.pieces, 20), applied.count)

\* C21, amended: extractTopics keeps the sentences of more than 20
\* characters (21 or more, blanks at the ends not counted) and returns
\* min(count, kept) topics, the i-th being the kept sentence at
\* floor(i x kept / count), so the topics follow the order of the text.
C21_TopicsOfMoreThanTwenty ==
    (applied.fn = "extractTopics") =>
        /\ applied.result = Sampled(SentencesOfAtLeast(applied.pieces, 21), applied.count)
        /\ \A i, j \in 1..Len(applied.result) :
              i <= j => applied.result[i].at <= applied.result[j].at

\* C21's case: of three pieces the one of 20 characters is left out and six
\* topics are asked of the two sentences kept
C21_Witness ==
    /\ applied.fn = "extractTopics"
    /\ applied.count = 6
    /\ Len(applied.pieces) = 3
    /\ applied.pieces[1].trimLength = 21
    /\ applied.pieces[2].trimLength = 20
    /\ applied.pieces[3].trimLength = 40
    /\ Len(applied.result) = 2

----------------------------------------------------------------------------
(* Properties of quizReducer, continued *)

\* a step leaves config, currentQuestionIndex and the four flags as they are
KeepsAllButQuestions ==
    /\ state'.config = state.config
    /\ state'.currentQuestionIndex = state.currentQuestionIndex
    /\ state'.showAnswers = state.showAnswers
    /\ state'.isGenerating = state.isGenerating
    /\ state'.quizStarted = state.quizStarted
    /\ state'.quizCompleted = state.quizCompleted

\* C22: a DELETE_QUESTION(i) step with 0 <= i < length removes the question
\* at position i, keeps those before it in place and moves those after it
\* down by one; with i outside that range it keeps the list; in both cases
\* it keeps config, currentQuestionIndex and the flags.
C22_DeleteShifts ==
    [][ lastAction'.type = "DELETE_QUESTION" =>
          LET i == lastAction'.payload
              before == state.questions
              after == state'.questions
          IN  /\ IF 0 <= i /\ i < Len(before)
                 THEN /\ Len(after) = Len(before) - 1
                      /\ \A k \in 1..i : after[k] = before[k]
                      /\ \A k \in (i + 1)..Len(after) : after[k] = before[k + 1]
                 ELSE after = before
              /\ KeepsAllButQuestions ]_vars

\* C22's case: the first of two questions has been deleted while the index
\* stood at 1
C22_Witness ==
    /\ lastAction.type = "DELETE_QUESTION"
    /\ lastAction.payload = 0
    /\ Len(state.questions) = 1
    /\ state.questions[1].id = "q2"
    /\ state.currentQuestionIndex = 1

QuizStateFields ==
    { "config", "questions", "currentQuestionIndex", "showAnswers",
      "isGenerating", "quizStarted", "quizCompleted" }

\* a step changes none of the fields outside F
ChangesOnly(F) == \A f \in QuizStateFields \ F : state'[f] = state[f]

\* C23: the reducer yields a QuizState for every action on every state, and
\* a step of SET_CONFIG, SET_QUESTIONS, SET_CURRENT_QUESTION, TOGGLE_ANSWERS,
\* SET_GENERATING, START_QUIZ or COMPLETE_QUIZ changes its own fields, as
\* the action says, and no other.
C23_ReducerFrames ==
    [][ /\ \A a \in ActionsOn(state) : DOMAIN quizReducer(state, a) = QuizStateFields
        /\ lastAction'.type = "SET_CONFIG" =>
              state'.config = lastAction'.payload /\ ChangesOnly({"config"})
        /\ lastAction'.type = "SET_QUESTIONS" =>
              state'.questions = lastAction'.payload /\ ChangesOnly({"questions"})
        /\ lastAction'.type = "SET_CURRENT_QUESTION" =>
              /\ state'.currentQuestionIndex = lastAction'.payload
              /\ ChangesOnly({"currentQuestionIndex"})
        /\ lastAction'.type = "TOGGLE_ANSWERS" =>
              state'.showAnswers = ~state.showAnswers /\ ChangesOnly({"showAnswers"})
        /\ lastAction'.type = "SET_GENERATING" =>
              state'.isGenerating = lastAction'.payload /\ ChangesOnly({"isGenerating"})
        /\ lastAction'.type = "START_QUIZ" =>
              /\ state'.quizStarted /\ state'.currentQuestionIndex = 0
              /\ ChangesOnly({"quizStarted", "currentQuestionIndex"})
        /\ lastAction'.type = "COMPLETE_QUIZ" =>
              state'.quizCompleted /\ ChangesOnly({"quizCompleted"})
      ]_vars

\* C23's case: a list of two questions has just been set on a state whose
\* index was 1 and whose flags were raised
C23_Witness ==
    /\ lastAction.type = "SET_QUESTIONS"
    /\ Len(lastAction.payload) = 2
    /\ state.questions = lastAction.payload
    /\ state.currentQuestionIndex = 1
    /\ state.quizStarted /\ state.quizCompleted /\ state.showAnswers
    /\ state.config = "form"

\* C24: a step by which the quiz screen completes the quiz (COMPLETE_QUIZ,
\* then the results screen) leaves every question of the list with a
\* recorded, non-blank userAnswer.
C24_CompletedMeansAllAnswered ==
    [][ (currentState = "quiz" /\ currentState' = "results") =>
          /\ state'.quizCompleted
          /\ \A i \in 1..Len(state'.questions) :
                state'.questions[i].userAnswer \notin {Undefined, " "} ]_vars

\* a step of handleSaveEdit that dispatches UPDATE_QUESTION
SavesEdit ==
    /\ currentState = "preview" /\ currentState' = "preview"
    /\ editingIndex # NoIndex /\ editingQuestion # <<>>
    /\ editingIndex' = NoIndex /\ editingQuestion' = <<>>

\* C25: a save writes the edited copy over the question it was copied from
\* and over no other: the question at editingIndex has the copy's id, the
\* list keeps its length, every other position is as before, and a list
\* without repeated ids stays so.
C25_SaveReplacesOpened ==
    [][ SavesEdit =>
          LET before == state.questions  after == state'.questions
          IN  /\ Len(after) = Len(before)
              /\ before[editingIndex + 1].id = editingQuestion[1].id
              /\ after[editingIndex + 1] = editingQuestion[1]
              /\ \A k \in 1..Len(before) : k # editingIndex + 1 => after[k] = before[k]
              /\ (\A i, j \in 1..Len(before) : before[i].id = before[j].id => i = j)
                    => (\A i, j \in 1..Len(after) : after[i].id = after[j].id => i = j)
      ]_vars

\* C26: a 200 response reports no more questions generated than requested.
C26_GeneratedAtMostRequested ==
    response.status = 200 => response.generated <= response.requested

RECURSIVE SumGenerated(_)
SumGenerated(bd) ==
    IF bd = <<>> THEN 0 ELSE Head(bd).generated + SumGenerated(Tail(bd))

\* C27: in a 200 response the breakdown entry of each type reports as
\* generated the number of returned questions of that type, and the
\* generated values add up to response.generated.
C27_BreakdownCountsReturned ==
    response.status = 200 =>
        /\ \A i \in 1..4 :
              /\ response.breakdown[i].type = questionTypes[i]
              /\ response.breakdown[i].generated =
                    CountOfType(response.questions, questionTypes[i])
        /\ SumGenerated(response.breakdown) = response.generated
        /\ response.generated = Len(response.questions)

\* C27's case: a 200 response where one type has more questions than were
\* requested of it and another type has fewer
C27_Witness ==
    /\ response.status = 200
    /\ \E i \in 1..4 : response.breakdown[i].generated > response.breakdown[i].requested
    /\ \E i \in 1..4 : response.breakdown[i].generated < response.breakdown[i].requested
    /\ Len(errors) > 0

----------------------------------------------------------------------------
(* Properties of a run's content chunks *)

\* the positions of the notes that the chunks of the run's batches hold
Covered ==
    UNION { Range(contentChunk(NotesOfLength(request.notes.length),
                               callLog[k].batchIndex, callLog[k].totalBatches)) \ {Blank} :
            k \in 1..Len(callLog) }

\* C28 as stated: when the run of an accepted request has answered, every
\* position of the notes lies in the chunk of one of its batches.
C28_ChunksCoverNotes ==
    (Answered /\ Accepted(request)) => Covered = 1..request.notes.length

\* C28, amended: when the run of an accepted request has answered, its B
\* batches hold the first B chunks of the notes cut in n = max(total
\* requested, 4): the positions 1..min(B x ceil(len/n), len), which is the
\* whole notes only when B x ceil(len/n) >= len.
C28_ChunksCoverFirstBatches ==
    (Answered /\ Accepted(request)) =>
        LET len == request.notes.length
            n == Max(totalQuestions(request.questionCounts), 4)
        IN  Covered = 1..Min(Len(callLog) * Ceil(len, n), len)

\* C28's case: four batches of one question each over notes of 100
\* characters, whose four chunks hold the whole notes
C28_Witness ==
    /\ Answered /\ Accepted(request)
    /\ Len(callLog) = 4
    /\ request.notes.length = 100
    /\ Covered = 1..100

----------------------------------------------------------------------------
(* Properties of the generation flag *)

\* C29: isGenerating is true exactly while a generation request is
\* outstanding; in particular it is never false while a request is in flight.
C29_GeneratingWhileOutstanding ==
    state.isGenerating <=> pending > 0

----------------------------------------------------------------------------
(* Properties of the matching widget *)

\* no two entries of m have the same right item, nor the same left item
OneToOne(m) ==
    \A p, q \in m : (p[1] = q[1] \/ p[2] = q[2]) => p = q

\* C30: from no matches, every step of the widget leaves each right item
\* matched to at most one left item and each left item to at most one right
\* item; a drop of the dragged item d on a target t matches t to d, removes
\* the earlier match of d and the earlier match of t and keeps the others;
\* a reset removes every match.
C30_MatchesOneToOne ==
    [][ /\ OneToOne(matches) /\ OneToOne(matches')
        /\ (draggedItem # NoItem /\ draggedItem' = NoItem) =>
              \E t \in rightItems :
                  /\ <<t, draggedItem>> \in matches'
                  /\ matches' \ {<<t, draggedItem>>} =
                        { p \in matches : p[1] # t /\ p[2] # draggedItem }
        /\ (matches' # matches /\ draggedItem' = draggedItem) => matches' = {}
      ]_vars

\* C30's case: every item matched, after drops that moved the first left
\* item away from the first right item
C30_Witness ==
    /\ Cardinality(matches) = MaxItems
    /\ <<<<"def", 1>>, <<"term", 1>>>> \notin matches
    /\ <<<<"def", 2>>, <<"term", 1>>>> \in matches
    /\ draggedItem = NoItem

============================================================================
